---- MODULE Spec2Model ----
(***************************************************************************)
(* A model of visionnest: the BoxAnnotator annotation pass over a          *)
(* Detections record set with its ColorPalette, the Detections container   *)
(* (indexing, equality) over numpy-style array storage, the calls on       *)
(* ColorPalette objects, the hex conversions of Colors and the box and     *)
(* polygon conversions of convertor.py.                                    *)
(*                                                                         *)
(* Conventions.  Python's None is an optional value with present = FALSE.  *)
(* Strings are sequences of character codes.  A Colors object is the       *)
(* triple <<r, g, b>> of its fields; the dataclass does not validate its   *)
(* fields, so a field may hold an object that is not a number: such a      *)
(* field is written as an integer above 255 (see ObjChannel).  A raised    *)
(* exception is the name of its Python class, "none" when nothing is       *)
(* raised.  Indices of Python sequences start at 0, TLA+ sequences at 1.   *)
(***************************************************************************)
EXTENDS Integers, Sequences, FiniteSets, TLC

\* ------------------------------------------------------------------ bounds
\* The largest number of detection records of a Detections.
MaxN == 2
\* The largest length of a list or array used as an index.
MaxIndexLen == 2
\* The largest number of entries of a list passed to add_palette or to
\* override_color, and the largest number of entries the calls add to one
\* ColorPalette.
MaxEntries == 2
\* The largest number of '#' characters in front of a hex colour string.
MaxHashes == 2
\* The largest pixel coordinate of a box and the largest image height and
\* width passed to xyxy2xyxyn.
MaxPixel == 4
\* The number of significand bits of the floats of xyxy2xywh and xywh2xyxy.
\* Python floats have 53; the rounding rule is the same for every width.
MantissaBits == 3
\* The largest number of vertices of a polygon.
MaxVertices == 3
\* The largest number of lines of a label file.
MaxLines == 2

\* ------------------------------------------------------------ state
VARIABLES
    detections,   \* the Detections the caller built: its xyxy rows and class_id
    annotator,    \* the BoxAnnotator object: its image shape and line width
    color_palette, \* the entries of the ColorPalette the last annotate call made
    log,          \* the last annotate call with its outcome, preceded by the
                  \* call before it when that had the same arguments
    heap,         \* numpy array storage: per attribute, the buffers of rows
    objs,         \* the Detections objects alive: the one last indexed (or
                  \* built) and the one derived from it, each attribute an
                  \* array over a buffer or None
    last_op,      \* the last operation on Detections objects and its outcome
    palettes,     \* the ColorPalette objects alive, each the list in its
                  \* colors field
    palette_op,   \* the last call on a ColorPalette and its outcome
    call          \* the last call of a function of colors.py or convertor.py:
                  \* its arguments and what it returned or raised

annotate_vars == <<detections, annotator, color_palette, log>>

detections_vars == <<heap, objs, last_op>>

library_vars == <<palettes, palette_op, call>>

vars == <<detections, annotator, color_palette, log, heap, objs, last_op,
          palettes, palette_op, call>>

\* ------------------------------------------------------- optional values
NoneVal == [present |-> FALSE, val |-> <<>>]

Some(v) == [present |-> TRUE, val |-> v]

\* All sequences over S of length at most n.
SeqUpTo(S, n) == UNION {[1..k -> S] : k \in 0..n}

\* ------------------------------------------------------------ Colors
\* Colors(r, g, b): the dataclass stores its three fields as given.
Colors(r, g, b) == <<r, g, b>>

\* A field of a Colors object that holds the Colors object c instead of a
\* number (the dataclass accepts it): an integer above 255 that names c.
ObjChannel(c) == 256 + (c[1] * 65536 + c[2] * 256 + c[3])

IsNumber(ch) == ch \in 0..255

\* Colors.as_bgr: the fields in the order b, g, r.
as_bgr(c) == <<c[3], c[2], c[1]>>

\* Character codes used by hex colour strings.
Hash == 35

Plus == 43

Minus == 45

Space == 32

\* The value of a hexadecimal digit character, -1 for any other character.
HexVal(ch) ==
    IF ch \in 48..57 THEN ch - 48
    ELSE IF ch \in 97..102 THEN ch - 87
    ELSE IF ch \in 65..70 THEN ch - 55
    ELSE -1

\* str.lstrip('#'): every leading '#' is removed.
RECURSIVE lstrip_hash(_)
lstrip_hash(s) ==
    IF s # <<>> /\ Head(s) = Hash THEN lstrip_hash(Tail(s)) ELSE s

\* int(s, 16) on the two characters c1 c2 with hex digit values v1, v2: two
\* hex digits, or one hex digit with a sign before it or white space beside
\* it; anything else is a ValueError.
int16_digits(c1, c2, v1, v2) ==
    IF v1 >= 0 /\ v2 >= 0 THEN [ok |-> TRUE, val |-> 16 * v1 + v2]
    ELSE IF c1 = Plus /\ v2 >= 0 THEN [ok |-> TRUE, val |-> v2]
    ELSE IF c1 = Minus /\ v2 >= 0 THEN [ok |-> TRUE, val |-> 0 - v2]
    ELSE IF c1 = Space /\ v2 >= 0 THEN [ok |-> TRUE, val |-> v2]
    ELSE IF v1 >= 0 /\ c2 = Space THEN [ok |-> TRUE, val |-> v1]
    ELSE [ok |-> FALSE, val |-> 0]

\* int(s, 16) on a two-character string.
int16(s) == int16_digits(s[1], s[2], HexVal(s[1]), HexVal(s[2]))

\* cls(r, g, b) of the three parsed channels, ValueError when one failed.
hex_channels(r, g, b) ==
    IF r.ok /\ g.ok /\ b.ok
    THEN [exc |-> "none", color |-> Colors(r.val, g.val, b.val)]
    ELSE [exc |-> "ValueError", color |-> <<0, 0, 0>>]

\* hex_to_rgb after lstrip('#'): the length check and the three channels.
hex_digits(h) ==
    IF Len(h) # 6
    THEN [exc |-> "ValueError", color |-> <<0, 0, 0>>]
    ELSE hex_channels(int16(SubSeq(h, 1, 2)), int16(SubSeq(h, 3, 4)),
                      int16(SubSeq(h, 5, 6)))

\* Colors.hex_to_rgb: the Colors of a hex string, or the exception raised.
hex_to_rgb(hex_code) == hex_digits(lstrip_hash(hex_code))

\* The attributes of a Colors object: the three dataclass fields.
Colors_fields == {"r", "g", "b"}

\* Colors.rgb_to_hex called with nargs arguments.  It is a staticmethod
\* without parameters: a call with an argument is a TypeError, and its body
\* reads the name self, which no scope defines, a NameError.
rgb_to_hex(nargs) ==
    IF nargs # 0
    THEN [exc |-> "TypeError", hex |-> <<>>]
    ELSE [exc |-> "NameError", hex |-> <<>>]

\* Colors.to_hex: self.rgb_to_hex(self.rgb).  The argument self.rgb is
\* evaluated before the call, and a Colors object has no attribute rgb.
to_hex(c) ==
    IF "rgb" \notin Colors_fields
    THEN [exc |-> "AttributeError", hex |-> <<>>]
    ELSE rgb_to_hex(1)

\* ------------------------------------------------------------ ColorPalette
\* The basic_palette literal of ColorPalette._init_standard_palettes.
basic_palette ==
    << <<255, 0, 0>>, <<0, 255, 0>>, <<0, 0, 255>>,
       <<255, 255, 0>>, <<0, 255, 255>>, <<255, 0, 255>>,
       <<128, 128, 128>>, <<163, 81, 251>>, <<255, 64, 64>>,
       <<255, 161, 160>>, <<255, 118, 51>>, <<255, 182, 51>>,
       <<209, 212, 53>>, <<76, 251, 18>>, <<148, 207, 26>>,
       <<64, 222, 138>>, <<27, 150, 64>>, <<0, 214, 193>>,
       <<46, 156, 170>>, <<0, 196, 255>>, <<54, 71, 151>>,
       <<102, 117, 255>>, <<0, 25, 239>>, <<134, 58, 255>>,
       <<83, 0, 135>>, <<205, 58, 255>>, <<255, 151, 202>>,
       <<255, 57, 201>>, <<255, 0, 0>>, <<230, 25, 75>>,
       <<60, 180, 75>>, <<255, 225, 25>>, <<0, 130, 200>>,
       <<245, 130, 49>>, <<145, 30, 180>>, <<70, 240, 240>>,
       <<240, 50, 230>>, <<210, 245, 60>>, <<250, 190, 190>>,
       <<0, 128, 128>>, <<230, 190, 255>>, <<170, 110, 40>>,
       <<255, 250, 200>>, <<128, 0, 0>>, <<170, 255, 195>> >>

\* A color_code argument of add_color: its Python type and its items (the
\* elements of a tuple or list, the fields of a Colors, the characters of a
\* str).
ColorCode(kind, items) == [kind |-> kind, items |-> items]

\* add_color of a str: the outcome h of hex_to_rgb is appended or raised.
add_color_hex(cs, h) ==
    IF h.exc = "none"
    THEN [colors |-> Append(cs, h.color), warned |-> FALSE, exc |-> "none"]
    ELSE [colors |-> cs, warned |-> FALSE, exc |-> h.exc]

\* An add_color that raises on a color code of a type it does not know.
add_color_strict(cs, code) ==
    IF code.kind = "tuple"
    THEN IF Len(code.items) = 3
         THEN [colors |-> Append(cs, Colors(code.items[1], code.items[2], code.items[3])),
               warned |-> FALSE, exc |-> "none"]
         ELSE [colors |-> cs, warned |-> FALSE, exc |-> "ValueError"]
    ELSE IF code.kind = "str"
    THEN add_color_hex(cs, hex_to_rgb(code.items))
    ELSE IF code.kind = "Colors"
    THEN [colors |-> Append(cs, code.items), warned |-> FALSE, exc |-> "none"]
    ELSE [colors |-> cs, warned |-> FALSE, exc |-> "TypeError"]

\* ColorPalette.add_color on the entry list cs: the new entry list, whether
\* the "Unsupported color code" warning was logged, and the exception raised.
\* A tuple is unpacked into exactly three fields (ValueError otherwise).
add_color(cs, code) ==
    IF code.kind = "tuple"
    THEN IF Len(code.items) = 3
         THEN [colors |-> Append(cs, Colors(code.items[1], code.items[2], code.items[3])),
               warned |-> FALSE, exc |-> "none"]
         ELSE [colors |-> cs, warned |-> FALSE, exc |-> "ValueError"]
    ELSE IF code.kind = "str"
    THEN add_color_hex(cs, hex_to_rgb(code.items))
    ELSE IF code.kind = "Colors"
    THEN [colors |-> Append(cs, code.items), warned |-> FALSE, exc |-> "none"]
    ELSE [colors |-> cs, warned |-> TRUE, exc |-> "none"]

\* The loop of add_palette after add_color on one more entry gave a: the
\* entries so far, the warnings counted, the exception raised.
add_palette_join(acc, a) ==
    [colors |-> a.colors,
     warned |-> acc.warned + (IF a.warned THEN 1 ELSE 0),
     exc |-> a.exc]

\* One round of the loop of add_palette: add_color(code), unless an earlier
\* add_color raised and ended the loop.
add_palette_step(acc, code) ==
    IF acc.exc # "none"
    THEN acc
    ELSE add_palette_join(acc, add_color(acc.colors, code))

\* The loop of add_palette over the entries lo..hi of the list, entered with
\* the outcome acc of the rounds before.  The rounds are taken by halves,
\* the first half before the second.
RECURSIVE add_palette_range(_, _, _, _)
add_palette_range(acc, palette, lo, hi) ==
    IF lo > hi THEN acc
    ELSE IF lo = hi THEN add_palette_step(acc, palette[lo])
    ELSE CHOOSE out \in
            {add_palette_range(first, palette, (lo + hi) \div 2 + 1, hi) :
                first \in {add_palette_range(acc, palette, lo,
                                              (lo + hi) \div 2)}} : TRUE

\* An add_palette that takes the entries from the last to the first.
add_palette_reversed(cs, palette) ==
    add_palette_range([colors |-> cs, warned |-> 0, exc |-> "none"],
                      [k \in 1..Len(palette) |-> palette[Len(palette) + 1 - k]],
                      1, Len(palette))

\* ColorPalette.add_palette: add_color on each entry in order; an exception
\* of add_color ends the loop and is raised.
add_palette(cs, palette) ==
    add_palette_range([colors |-> cs, warned |-> 0, exc |-> "none"],
                      palette, 1, Len(palette))

\* _init_standard_palettes on the entry list cs: add_palette(basic_palette).
init_standard_palettes(cs) ==
    add_palette(cs, [k \in 1..Len(basic_palette) |->
                        ColorCode("tuple", basic_palette[k])]).colors

\* The entry list of a new ColorPalette after add_color of the first k
\* triples of basic_palette: the loop of add_palette as _init_standard_palettes
\* runs it on the empty list.
standard_palette[k \in 0..Len(basic_palette)] ==
    IF k = 0
    THEN <<>>
    ELSE add_color(standard_palette[k - 1],
                   ColorCode("tuple", basic_palette[k])).colors

\* A ColorPalette that keeps the entries of the palette made before it.
ColorPalette_init_shared == init_standard_palettes(color_palette)

\* A ColorPalette whose colors field is the list object of the first palette
\* alive (a list kept on the class instead of made in __init__).
ColorPalette_init_aliased ==
    IF palettes = <<>> THEN init_standard_palettes(<<>>) ELSE palettes[1]

\* ColorPalette.__init__: self.colors = [] and then _init_standard_palettes.
ColorPalette_init == standard_palette[Len(basic_palette)]

\* An override_color that puts the converted entries behind the entries of
\* the palette.
override_color_append(cs, conv) ==
    IF conv.exc # "none"
    THEN [colors |-> cs, warned |-> conv.warned, exc |-> conv.exc]
    ELSE IF Len(conv.colors) > 0
    THEN [colors |-> cs \o conv.colors, warned |-> conv.warned, exc |-> "none"]
    ELSE [colors |-> cs, warned |-> conv.warned, exc |-> "none"]

\* The end of override_color, conv being the outcome of its loop: an
\* exception of the loop is raised before self.colors is assigned; otherwise
\* a non-empty lookup_colors is put in front of the entries.
override_color_prepend(cs, conv) ==
    IF conv.exc # "none"
    THEN [colors |-> cs, warned |-> conv.warned, exc |-> conv.exc]
    ELSE IF Len(conv.colors) > 0
    THEN [colors |-> conv.colors \o cs, warned |-> conv.warned, exc |-> "none"]
    ELSE [colors |-> cs, warned |-> conv.warned, exc |-> "none"]

\* ColorPalette.override_color on the entry list cs.  Its loop converts
\* each entry into the local list lookup_colors by the branches of add_color
\* (tuple, str, Colors, warning otherwise), so it is the loop of add_palette
\* run on an empty list.
override_color(cs, colors) ==
    override_color_prepend(cs, add_palette(<<>>, colors))

\* A lookup that indexes the list as Python does, a negative index counting
\* from the end.
get_color_by_index_wrap(cs, index) ==
    IF index >= Len(cs) \/ index < 0 - Len(cs)
    THEN [exc |-> "IndexError", color |-> <<0, 0, 0>>]
    ELSE IF index < 0
    THEN [exc |-> "none", color |-> cs[Len(cs) + index + 1]]
    ELSE [exc |-> "none", color |-> cs[index + 1]]

\* ColorPalette.get_color_by_index on the entry list cs (index from 0).
get_color_by_index(cs, index) ==
    IF index < 0 \/ index >= Len(cs)
    THEN [exc |-> "IndexError", color |-> <<0, 0, 0>>]
    ELSE [exc |-> "none", color |-> cs[index + 1]]

\* ------------------------------------------------------------ drawing
\* One call of the drawing backend: cv2.rectangle (text empty) or
\* cv2.putText (p1 = p2 = the text origin).
DrawOp(op, p1, p2, color, thickness, text) ==
    [op |-> op, p1 |-> p1, p2 |-> p2, color |-> color,
     thickness |-> thickness, text |-> text]

\* draw_rectangle: color.as_bgr() (AttributeError when color is not a
\* Colors), then cv2.rectangle, which rejects a colour that is not numeric
\* (cv2.error); thickness is -1 when filled.
draw_rectangle(top_left, bottom_right, color, thickness, filled) ==
    IF color.kind # "Colors"
    THEN [exc |-> "AttributeError", draws |-> <<>>]
    ELSE IF \E k \in 1..3 : ~IsNumber(color.items[k])
    THEN [exc |-> "error", draws |-> <<>>]
    ELSE [exc |-> "none",
          draws |-> <<DrawOp("rectangle", top_left, bottom_right,
                             as_bgr(color.items),
                             IF filled THEN -1 ELSE thickness, <<>>)>>]

\* cv2.getTextSize(label, 0, fontScale = line_width / 3, thickness): the
\* size of the rendered text, here a fixed cell per character that grows
\* with the line width.
getTextSize(label, line_width) == <<7 * line_width * Len(label), 7 * line_width>>

Max(a, b) == IF a >= b THEN a ELSE b

\* cv2.putText at org after the background rectangle gave bg.
put_text_at(label, color, tf, org, bg) ==
    IF bg.exc # "none"
    THEN bg
    ELSE IF color.kind # "Colors"
    THEN [exc |-> "AttributeError", draws |-> bg.draws]
    ELSE IF \E k \in 1..3 : ~IsNumber(color.items[k])
    THEN [exc |-> "error", draws |-> bg.draws]
    ELSE [exc |-> "none",
          draws |-> Append(bg.draws,
                           DrawOp("putText", org, org, as_bgr(color.items),
                                  tf, label))]

\* put_text placing the label above p1 whatever the clearance.
put_text_sized_above(p1, label, color, tf, w, h, outside, background_color) ==
    put_text_at(label, color, tf, <<p1[1], p1[2] - 2>>,
                IF background_color.kind # "None"
                THEN draw_rectangle(p1, <<p1[1] + w, p1[2] - h - 3>>,
                                    background_color, 2, TRUE)
                ELSE [exc |-> "none", draws |-> <<>>])

\* put_text once the text size (w, h) is known: the label goes above p1
\* when p1.y - h >= 3 (outside).
put_text_sized(p1, label, color, tf, w, h, outside, background_color) ==
    put_text_at(label, color, tf,
                <<p1[1], IF outside THEN p1[2] - 2 ELSE p1[2] + h + 2>>,
                IF background_color.kind # "None"
                THEN draw_rectangle(p1,
                        <<p1[1] + w, IF outside THEN p1[2] - h - 3 ELSE p1[2] + h + 3>>,
                        background_color, 2, TRUE)
                ELSE [exc |-> "none", draws |-> <<>>])

\* put_text: the filled background rectangle (when a background colour is
\* given) and then the text.
put_text(p1, label, color, line_width, background_color) ==
    put_text_sized(p1, label, color, Max(line_width - 1, 1),
                   getTextSize(label, line_width)[1],
                   getTextSize(label, line_width)[2],
                   p1[2] - getTextSize(label, line_width)[2] >= 3,
                   background_color)

\* ------------------------------------------------------------ BoxAnnotator
\* Python's round() of the fraction num / den (den > 0): to the nearest
\* integer, a tie to the even one.
Round(num, den) ==
    LET q == num \div den
        r == num % den
    IN IF 2 * r < den THEN q
       ELSE IF 2 * r > den THEN q + 1
       ELSE IF q % 2 = 0 THEN q ELSE q + 1

RECURSIVE SumSeq(_)
SumSeq(s) == IF s = <<>> THEN 0 ELSE Head(s) + SumSeq(Tail(s))

\* BoxAnnotator.__init__: lw = line_width or max(round(sum(shape)/2*0.003), 2);
\* a line_width of None or 0 is falsy.
BoxAnnotator_init(im_shape, line_width) ==
    [im_shape |-> im_shape,
     lw |-> IF line_width.present /\ line_width.val # 0
            THEN line_width.val
            ELSE Max(Round(SumSeq(im_shape) * 3, 2000), 2)]

\* The colour of box_label as a Colors: Colors.hex_to_rgb of a str (hx is its
\* outcome), Colors(r, g, b) of a tuple unpacked into three, else unchanged.
box_label_color(color, hx) ==
    IF color.kind = "str"
    THEN (IF hx.exc = "none"
          THEN [exc |-> "none", color |-> ColorCode("Colors", hx.color)]
          ELSE [exc |-> hx.exc, color |-> color])
    ELSE IF color.kind = "tuple"
    THEN (IF Len(color.items) = 3
          THEN [exc |-> "none",
                color |-> ColorCode("Colors",
                    Colors(color.items[1], color.items[2], color.items[3]))]
          ELSE [exc |-> "ValueError", color |-> color])
    ELSE [exc |-> "none", color |-> color]

\* draws of the outline followed by those of put_text (outcome t).
box_label_join(box, t) == [exc |-> t.exc, draws |-> box.draws \o t.draws]

\* box_label after draw_rectangle gave box: put_text for a non-empty label.
box_label_text(lw, p1, label, color, txt_color, box) ==
    IF box.exc # "none"
    THEN box
    ELSE IF label # <<>>
    THEN box_label_join(box, put_text(p1, label, txt_color, lw, color))
    ELSE box

\* box_label with the colour normalised (outcome conv): the corners are read
\* from xyxy (IndexError on a row of fewer than four values) and the outline
\* is drawn.
box_label_draw(lw, xyxy, label, conv, txt_color) ==
    IF conv.exc # "none"
    THEN [exc |-> conv.exc, draws |-> <<>>]
    ELSE IF Len(xyxy) < 4
    THEN [exc |-> "IndexError", draws |-> <<>>]
    ELSE box_label_text(lw, <<xyxy[1], xyxy[2]>>, label, conv.color, txt_color,
                        draw_rectangle(<<xyxy[1], xyxy[2]>>, <<xyxy[3], xyxy[4]>>,
                                       conv.color, lw, FALSE))

\* BoxAnnotator.box_label: the colour is normalised (hex string or triple),
\* the outline is drawn and, for a non-empty label, put_text.  Returns the
\* backend draws made and the exception.
box_label(lw, xyxy, label, color, txt_color) ==
    box_label_draw(lw, xyxy, label,
                   box_label_color(color, hex_to_rgb(color.items)), txt_color)

\* A lookup key that is always the positional index, class ids ignored.
color_idx_positional(det, i) == [exc |-> "none", key |-> i]

\* The palette lookup key of record i (from 0) in annotate: class_id[i] when
\* class ids are present (IndexError past the end of class_id), else i.
color_idx(det, i) ==
    IF det.class_id.present
    THEN IF i < Len(det.class_id.val)
         THEN [exc |-> "none", key |-> det.class_id.val[i + 1]]
         ELSE [exc |-> "IndexError", key |-> 0]
    ELSE [exc |-> "none", key |-> i]

\* The label argument of record i in annotate: labels[i] when labels is not
\* None (IndexError past the end of labels), else "".
label_arg(labels, i) ==
    IF labels.present
    THEN IF i < Len(labels.val)
         THEN [exc |-> "none", label |-> labels.val[i + 1]]
         ELSE [exc |-> "IndexError", label |-> <<>>]
    ELSE [exc |-> "none", label |-> <<>>]

\* One box_label call made by annotate, as the caller of box_label sees it.
BoxCall(i, xyxy, label, color, b) ==
    [i |-> i, xyxy |-> xyxy, label |-> label, color |-> color,
     exc |-> b.exc, draws |-> b.draws]

\* The box_label call of record i with its outcome b.
annotate_call(i, xyxy, label, color, b) ==
    [exc |-> b.exc, calls |-> <<BoxCall(i, xyxy, label, color, b)>>]

\* The loop body once the lookup key, the label and the colour have been
\* evaluated (outcomes k, l, c): the first exception among them, else the
\* box_label call.
annotate_args(lw, xyxy, txt_color, i, k, l, c) ==
    IF k.exc # "none" THEN [exc |-> k.exc, calls |-> <<>>]
    ELSE IF l.exc # "none" THEN [exc |-> l.exc, calls |-> <<>>]
    ELSE IF c.exc # "none" THEN [exc |-> c.exc, calls |-> <<>>]
    ELSE annotate_call(i, xyxy, l.label, c.color,
                       box_label(lw, xyxy, l.label, ColorCode("Colors", c.color),
                                 txt_color))

\* get_color_by_index(color_idx) of the loop body, k the outcome of color_idx.
annotate_color(cs, k) == get_color_by_index(cs, k.key)

\* The body of annotate's loop for record i: the exception raised before
\* box_label is reached, or the box_label call and its outcome.
annotate_record(lw, det, labels, cs, txt_color, i) ==
    annotate_args(lw, det.xyxy[i + 1], txt_color, i, color_idx(det, i),
                  label_arg(labels, i), annotate_color(cs, color_idx(det, i)))

\* annotate's try block: the loop over the records from i on; the first
\* exception leaves the loop and is logged by the except clause.
RECURSIVE annotate_loop(_, _, _, _, _, _)

\* The calls of record i (outcome r) followed by those of the later records.
annotate_join(r, rest) ==
    [logged |-> rest.logged, calls |-> r.calls \o rest.calls]

\* The loop after the body for record i gave r.
annotate_next(lw, det, labels, cs, txt_color, i, r) ==
    IF r.exc # "none"
    THEN [logged |-> r.exc, calls |-> r.calls]
    ELSE annotate_join(r, annotate_loop(lw, det, labels, cs, txt_color, i + 1))

annotate_loop(lw, det, labels, cs, txt_color, i) ==
    IF i >= Len(det.xyxy)
    THEN [logged |-> "none", calls |-> <<>>]
    ELSE annotate_next(lw, det, labels, cs, txt_color, i,
                       annotate_record(lw, det, labels, cs, txt_color, i))

\* The colors argument of annotate as the color_code that add_color sees:
\* the container itself, its elements Colors objects.
colors_code(colors) ==
    ColorCode(colors.kind,
              [k \in 1..Len(colors.items) |-> ObjChannel(colors.items[k])])

\* The warnings annotate logs: too few colors, and add_color's (outcome a).
annotate_warnings(det, colors, a) ==
    (IF colors.present /\ Len(colors.items) < Len(det.xyxy)
     THEN <<"colors out of bounds">> ELSE <<>>)
    \o (IF a.warned THEN <<"unsupported color code">> ELSE <<>>)

\* What annotate returns to its caller, a the outcome of add_color and loop
\* that of the try block.
annotate_outcome(a, w, loop) ==
    [raised |-> "none", logged |-> loop.logged, warnings |-> w,
     calls |-> loop.calls, palette |-> a.colors]

\* annotate after add_color(colors) gave a: an exception of add_color is
\* raised to the caller, else the try block runs on the palette.
annotate_palette(lw, det, labels, colors, txt_color, a) ==
    IF a.exc # "none"
    THEN [raised |-> a.exc, logged |-> "none",
          warnings |-> annotate_warnings(det, colors, a),
          calls |-> <<>>, palette |-> a.colors]
    ELSE annotate_outcome(a, annotate_warnings(det, colors, a),
                          annotate_loop(lw, det, labels, a.colors, txt_color, 0))

\* BoxAnnotator.annotate: a new ColorPalette, the warning on too few colors,
\* add_color(colors) outside the try block, then the loop.  Returns the
\* exception raised to the caller, the exception logged by the except
\* clause, the warnings logged, the box_label calls made and the entries of
\* the palette used.
annotate(lw, cs0, det, labels, colors, txt_color) ==
    annotate_palette(lw, det, labels, colors, txt_color,
                     IF colors.present
                     THEN add_color(cs0, colors_code(colors))
                     ELSE [colors |-> cs0, warned |-> FALSE, exc |-> "none"])

\* ------------------------------------------------------------ Detections
\* The fields of the dataclass, in declaration order: xyxy and the six
\* optional attributes.
Attrs == <<"xyxy", "poly", "confidence", "class_id", "tracker_id",
           "object_length", "object_area">>

AttrSet == {Attrs[k] : k \in 1..Len(Attrs)}

OptionalAttrs == AttrSet \ {"xyxy"}

\* An attribute of a Detections object: None, or a numpy array, which is a
\* buffer of the heap (buf) and the positions of its rows in that buffer
\* (idx).  Arrays that name the same buffer share storage.
NoArray == [present |-> FALSE, buf |-> 0, idx |-> <<>>]

Array(buf, idx) == [present |-> TRUE, buf |-> buf, idx |-> idx]

\* The rows of attribute a of object d, read through the heap h.
Rows(h, d, a) == [k \in 1..Len(d[a].idx) |-> h[a][d[a].buf][d[a].idx[k]]]

\* No array allocated, and no operation made yet.
EmptyHeap == [a \in AttrSet |-> <<<<>>, <<>>>>]

NoOp == [kind |-> "none", exc |-> "none"]

\* Detections.__len__: len(self.xyxy).
Detections_len(d) == Len(d["xyxy"].idx)

\* An index value: a Python int, a slice (start, stop, step, each an int or
\* None), a list of ints or an integer ndarray.
IntIndex(i) ==
    [kind |-> "int", items |-> <<i>>, start |-> NoneVal, stop |-> NoneVal,
     step |-> NoneVal]

SliceIndex(start, stop, step) ==
    [kind |-> "slice", items |-> <<>>, start |-> start, stop |-> stop,
     step |-> step]

ListIndex(kind, items) ==
    [kind |-> kind, items |-> items, start |-> NoneVal, stop |-> NoneVal,
     step |-> NoneVal]

Min(a, b) == IF a <= b THEN a ELSE b

\* slice.indices(n) and the positions (from 0) the slice selects, as numpy
\* basic slicing computes them; a step of 0 is a ValueError.
slice_positions(n, index) ==
    LET step == IF index.step.present THEN index.step.val ELSE 1
        lower == IF step > 0 THEN 0 ELSE -1
        upper == IF step > 0 THEN n ELSE n - 1
        clip(v) == IF v < 0 THEN Max(v + n, lower) ELSE Min(v, upper)
        start == IF index.start.present THEN clip(index.start.val)
                 ELSE IF step < 0 THEN upper ELSE lower
        stop == IF index.stop.present THEN clip(index.stop.val)
                ELSE IF step < 0 THEN lower ELSE upper
        count == IF step > 0
                 THEN (IF stop > start THEN (stop - start + step - 1) \div step ELSE 0)
                 ELSE (IF start > stop
                       THEN (start - stop + (0 - step) - 1) \div (0 - step)
                       ELSE 0)
    IN IF step = 0
       THEN [exc |-> "ValueError", pos |-> <<>>]
       ELSE [exc |-> "none", pos |-> [k \in 1..count |-> start + (k - 1) * step]]

\* Selection through a boolean mask built from the index: the selected rows
\* in the order of the array, each once.
fancy_positions_as_mask(n, items) ==
    LET hit(p) == \E k \in 1..Len(items) : items[k] = p \/ items[k] + n = p
    IN SelectSeq([p \in 1..n |-> p - 1], hit)

\* Integer-array indexing keeps the order and the repetitions of the index:
\* position k of the result is row items[k], a negative index counted from
\* the end.
fancy_positions(n, items) ==
    [k \in 1..Len(items) |-> IF items[k] < 0 THEN items[k] + n ELSE items[k]]

\* numpy's a[index] along the first axis of array a (of n rows): a slice gives
\* a view on the same buffer; a list or an integer array gives a new array
\* with copies of the rows (IndexError when an index is outside -n..n-1).
\* Returns the positions (from 0) selected and whether the result is a view.
numpy_getitem(n, index) ==
    IF index.kind = "slice"
    THEN LET sp == slice_positions(n, index) IN
         [exc |-> sp.exc, view |-> TRUE, pos |-> sp.pos]
    ELSE IF \E k \in 1..Len(index.items) : index.items[k] < 0 - n \/ index.items[k] >= n
    THEN [exc |-> "IndexError", view |-> FALSE, pos |-> <<>>]
    ELSE [exc |-> "none", view |-> FALSE, pos |-> fancy_positions(n, index.items)]

\* Detections.__getitem__, first statement: an int index becomes [index].
as_list_index(index) ==
    IF index.kind = "int" THEN ListIndex("list", index.items) ELSE index

\* The buffer a new array of attribute a is put in: the one the indexed
\* object does not use.
FreeBuf(d, a) == IF d[a].buf = 1 THEN 2 ELSE 1

\* Detections.__getitem__ on object d: every attribute that is not None is
\* indexed with the same index, None stays None; the first attribute whose
\* indexing raises ends the call.  Returns the exception, the new object and
\* the heap with the copied rows stored.
Detections_getitem(h, d, index0) ==
    LET index == as_list_index(index0)
        sel(a) == numpy_getitem(Len(d[a].idx), index)
        failing == {k \in 1..Len(Attrs) : d[Attrs[k]].present /\ sel(Attrs[k]).exc # "none"}
        first == CHOOSE k \in failing : \A m \in failing : k <= m
        new(a) ==
            IF ~d[a].present THEN NoArray
            ELSE IF sel(a).view
            THEN Array(d[a].buf, [k \in 1..Len(sel(a).pos) |-> d[a].idx[sel(a).pos[k] + 1]])
            ELSE Array(FreeBuf(d, a), [k \in 1..Len(sel(a).pos) |-> k])
        stored(a) ==
            IF ~d[a].present THEN <<<<>>, <<>>>>
            ELSE [b \in 1..2 |->
                    IF b = d[a].buf THEN h[a][b]
                    ELSE IF sel(a).view THEN <<>>
                    ELSE [k \in 1..Len(sel(a).pos) |->
                            h[a][d[a].buf][d[a].idx[sel(a).pos[k] + 1]]]]
    IN IF failing # {}
       THEN [exc |-> sel(Attrs[first]).exc, obj |-> d, heap |-> h]
       ELSE [exc |-> "none",
             obj |-> [a \in DOMAIN d |-> new(a)],
             heap |-> [a \in DOMAIN h |-> stored(a)]]

\* Python values met while __eq__ is evaluated: an int, None, a bool, or an
\* array of scalar rows.
IntV(n) == [t |-> "int", n |-> n, rows |-> <<>>]

NoneV == [t |-> "none", n |-> 0, rows |-> <<>>]

BoolV(b) == [t |-> "bool", n |-> IF b THEN 1 ELSE 0, rows |-> <<>>]

ArrV(rows) == [t |-> "array", n |-> 0, rows |-> rows]

\* The value of attribute a of object d: None or the array.
AttrV(h, d, a) == IF d[a].present THEN ArrV(Rows(h, d, a)) ELSE NoneV

\* bool(v).  An array of one element has the truth of the element, one of
\* several elements raises ValueError; the truth of an empty array is False
\* on older numpy builds and a ValueError on newer ones (emptyRaises).
Truth(v, emptyRaises) ==
    IF v.t # "array" THEN [exc |-> "none", b |-> v.n # 0]
    ELSE IF Len(v.rows) = 1 THEN [exc |-> "none", b |-> v.rows[1] # 0]
    ELSE IF Len(v.rows) = 0 /\ ~emptyRaises THEN [exc |-> "none", b |-> FALSE]
    ELSE [exc |-> "ValueError", b |-> FALSE]

\* x and y: x when x is false, else y.
PyAnd(v1, v2, emptyRaises) ==
    LET t == Truth(v1, emptyRaises) IN
    IF t.exc # "none" THEN [exc |-> t.exc, v |-> NoneV]
    ELSE [exc |-> "none", v |-> IF t.b THEN v2 ELSE v1]

\* any([e1, e2]) where building e1 may have raised.
PyAny(e1, v2, emptyRaises) ==
    IF e1.exc # "none" THEN [exc |-> e1.exc, b |-> FALSE]
    ELSE LET t == Truth(e1.v, emptyRaises) IN
         IF t.exc # "none" THEN t
         ELSE [exc |-> "none", b |-> t.b \/ v2]

\* np.array_equal(p, q) on two attributes: None equals None only, arrays
\* are equal when they have the same rows.
array_equal(h, x, y, a) ==
    /\ x[a].present = y[a].present
    /\ x[a].present => Rows(h, x, a) = Rows(h, y, a)

\* len(self.poly) and len(self.other.poly): len(None) is a TypeError, and
\* self has no attribute "other".
eq_poly_term(h, x, y) ==
    IF ~x["poly"].present THEN [exc |-> "TypeError", v |-> NoneV]
    ELSE IF Len(x["poly"].idx) = 0 THEN [exc |-> "none", v |-> IntV(0)]
    ELSE [exc |-> "AttributeError", v |-> NoneV]

\* len(self.class_id) and (other.class_id).
eq_class_id_term(h, x, y) ==
    IF ~x["class_id"].present THEN [exc |-> "TypeError", v |-> NoneV]
    ELSE PyAnd(IntV(Len(x["class_id"].idx)), AttrV(h, y, "class_id"), FALSE)

\* (self.a) and (other.a), for confidence and tracker_id.
eq_and_term(h, x, y, a, emptyRaises) ==
    PyAnd(AttrV(h, x, a), AttrV(h, y, a), emptyRaises)

\* Detections.__eq__(x, y): all([...]) over the xyxy comparison and one any
\* per compared attribute, evaluated in the order written; the first
\* exception ends the call.  object_length and object_area are not looked at.
Detections_eq(h, x, y, emptyRaises) ==
    LET terms == <<
            PyAny(eq_poly_term(h, x, y), array_equal(h, x, y, "poly"), emptyRaises),
            PyAny(eq_class_id_term(h, x, y), array_equal(h, x, y, "class_id"), emptyRaises),
            PyAny(eq_and_term(h, x, y, "confidence", emptyRaises),
                  array_equal(h, x, y, "confidence"), emptyRaises),
            PyAny(eq_and_term(h, x, y, "tracker_id", emptyRaises),
                  array_equal(h, x, y, "tracker_id"), emptyRaises) >>
        failing == {k \in 1..Len(terms) : terms[k].exc # "none"}
        first == CHOOSE k \in failing : \A m \in failing : k <= m
    IN IF failing # {}
       THEN [exc |-> terms[first].exc, result |-> FALSE]
       ELSE [exc |-> "none",
             result |-> /\ array_equal(h, x, y, "xyxy")
                        /\ \A k \in 1..Len(terms) : terms[k].b]

\* ------------------------------------------------------------ convertor
\* The float x / y of two integers, kept as the fraction it stands for: the
\* rounding error of a Python float is accounted for where the float is turned
\* into an integer (float_int).
Frac(n, d) == [num |-> n, den |-> d]

\* xyxy2xyxyn: x coordinates over scale[1] (width), y coordinates over
\* scale[0] (height).  scale = <<height, width>>.
xyxy2xyxyn(xyxy, scale) ==
    <<Frac(xyxy[1], scale[2]), Frac(xyxy[2], scale[1]),
      Frac(xyxy[3], scale[2]), Frac(xyxy[4], scale[1])>>

\* int() of the exact value n / d (d > 0): truncation towards zero.
TruncDiv(n, d) == IF n >= 0 THEN n \div d ELSE 0 - ((0 - n) \div d)

\* int(f * k) where the float f stands for q.num / q.den: the values the
\* expression can have.  When the exact product is an integer other than 0,
\* the rounded float product can lie just below it in magnitude (61 / 7 * 7 is
\* 60.99999999999999), and int() then gives the integer one nearer to zero.
float_int(q, k) ==
    IF (q.num * k) % q.den = 0 /\ q.num * k > 0
    THEN {TruncDiv(q.num * k, q.den), TruncDiv(q.num * k, q.den) - 1}
    ELSE IF (q.num * k) % q.den = 0 /\ q.num * k < 0
    THEN {TruncDiv(q.num * k, q.den), TruncDiv(q.num * k, q.den) + 1}
    ELSE {TruncDiv(q.num * k, q.den)}

\* xyxyn2xyxy: the tuples it can return.  As in the source, the third item is
\* int(xyxyn[1] * scale[1]) and the fourth int(xyxyn[2] * scale[0]).
xyxyn2xyxy(xyxyn, scale) ==
    {<<a, b, c, d>> :
        a \in float_int(xyxyn[1], scale[2]),
        b \in float_int(xyxyn[2], scale[1]),
        c \in float_int(xyxyn[2], scale[2]),
        d \in float_int(xyxyn[3], scale[1])}

\* The number of binary digits of a natural number.
RECURSIVE BitLen(_)
BitLen(n) == IF n = 0 THEN 0 ELSE 1 + BitLen(n \div 2)

\* 2 to the power k.
RECURSIVE Pow2(_)
Pow2(k) == IF k <= 0 THEN 1 ELSE 2 * Pow2(k - 1)

\* Rounding of the natural number n to a multiple of q, halves to the even
\* multiple.
round_even(n, q) ==
    IF 2 * (n % q) > q \/ (2 * (n % q) = q /\ ((n \div q) % 2 = 1))
    THEN n - (n % q) + q
    ELSE n - (n % q)

\* The float nearest to the exact value n: n rounded to MantissaBits
\* significant binary digits, ties to even.  Values are counted in a unit
\* that is a power of two and small enough for every value that occurs.
fl(n) ==
    IF n < 0
    THEN 0 - round_even(0 - n, Pow2(BitLen(0 - n) - MantissaBits))
    ELSE round_even(n, Pow2(BitLen(n) - MantissaBits))

\* w / 2 on a float: halving a binary float is exact.  The values halved are
\* even multiples of the unit.
half(n) == n \div 2

\* xyxy2xywh on a box of floats: w = xyxy[2] - xyxy[0] and
\* h = xyxy[3] - xyxy[1] are floats, and so are the two sums.
xyxy2xywh(xyxy) ==
    <<fl(xyxy[1] + half(fl(xyxy[3] - xyxy[1]))),
      fl(xyxy[2] + half(fl(xyxy[4] - xyxy[2]))),
      fl(xyxy[3] - xyxy[1]),
      fl(xyxy[4] - xyxy[2])>>

\* xywh2xyxy on a tuple of floats.
xywh2xyxy(xywh) ==
    <<fl(xywh[1] - half(xywh[3])), fl(xywh[2] - half(xywh[4])),
      fl(xywh[1] + half(xywh[3])), fl(xywh[2] + half(xywh[4]))>>

\* Python's min and max over the items of a non-empty array.
RECURSIVE py_min(_)
py_min(a) ==
    IF Len(a) = 1 THEN a[1]
    ELSE IF a[1] <= py_min(Tail(a)) THEN a[1] ELSE py_min(Tail(a))

RECURSIVE py_max(_)
py_max(a) ==
    IF Len(a) = 1 THEN a[1]
    ELSE IF a[1] >= py_max(Tail(a)) THEN a[1] ELSE py_max(Tail(a))

\* poly[..., k] of np.array(poly) for a list of (x, y) vertices (k from 0).
column(poly, k) == [i \in 1..Len(poly) |-> poly[i][k + 1]]

\* A poly2xyxy that takes the bottom side from the x coordinates.
poly2xyxy_xmax(poly) ==
    IF poly = <<>>
    THEN [exc |-> "IndexError", box |-> <<>>]
    ELSE [exc |-> "none",
          box |-> <<py_min(column(poly, 0)), py_min(column(poly, 1)),
                    py_max(column(poly, 0)), py_max(column(poly, 0))>>]

\* poly2xyxy.  np.array([]) has the shape (0,), so poly[..., 0] is an
\* IndexError for the empty list.
poly2xyxy(poly) ==
    IF poly = <<>>
    THEN [exc |-> "IndexError", box |-> <<>>]
    ELSE [exc |-> "none",
          box |-> <<py_min(column(poly, 0)), py_min(column(poly, 1)),
                    py_max(column(poly, 0)), py_max(column(poly, 1))>>]

\* ------------------------------------------------------------ label files
\* A token of a label file line: the text of the integer n ("3"), of n with
\* a decimal point ("3.0") or of n and a half ("3.5").
Token(form, n) == [form |-> form, n |-> n]

\* float(x) of a token, counted in halves.
py_float(x) == IF x.form = "half" THEN 2 * x.n + 1 ELSE 2 * x.n

\* float(x) if float(x) != int(float(x)) else int(x): a number with a
\* fraction stays a float; otherwise int() is applied to the text of the
\* token, which is a ValueError unless the text is an integer literal.
convert_token(x) ==
    IF py_float(x) # 2 * TruncDiv(py_float(x), 2)
    THEN [exc |-> "none", val |-> [type |-> "float", halves |-> py_float(x)]]
    ELSE IF x.form = "int"
    THEN [exc |-> "none", val |-> [type |-> "int", n |-> x.n]]
    ELSE [exc |-> "ValueError", val |-> <<>>]

\* One round of the loop of xyxy_from_txtfile on the tokens of a line: every
\* token is converted, then the list is unpacked into exactly five names.
xyxy_line(parts) ==
    IF \E i \in 1..Len(parts) : convert_token(parts[i]).exc # "none"
    THEN [exc |-> "ValueError", rec |-> <<>>]
    ELSE IF Len(parts) # 5
    THEN [exc |-> "ValueError", rec |-> <<>>]
    ELSE [exc |-> "none",
          rec |-> [i \in 1..5 |-> convert_token(parts[i]).val]]

\* One round of the loop of xy_from_txtfile: parts[0] (IndexError on a line
\* without tokens), int(parts[0]) (ValueError unless an integer literal), and
\* then the list comprehension, whose range(0, len(xy), 2) reads the local
\* name xy before anything is assigned to it: UnboundLocalError.
xy_line(parts) ==
    IF parts = <<>> THEN [exc |-> "IndexError", rec |-> <<>>]
    ELSE IF parts[1].form # "int" THEN [exc |-> "ValueError", rec |-> <<>>]
    ELSE [exc |-> "UnboundLocalError", rec |-> <<>>]

\* The loop over f.readlines(), rounds being the outcome of the loop body on
\* each line in order: the record of a round is appended; an exception ends
\* the loop and is raised.
RECURSIVE read_lines(_, _)
read_lines(rounds, acc) ==
    IF rounds = <<>> THEN [exc |-> "none", warned |-> FALSE, out |-> acc]
    ELSE IF Head(rounds).exc # "none"
    THEN [exc |-> Head(rounds).exc, warned |-> FALSE, out |-> <<>>]
    ELSE read_lines(Tail(rounds), Append(acc, Head(rounds).rec))

\* A parser on the file at a path, None when no file exists there: the
\* warning and the empty list, or the loop over the lines.
from_txtfile(file, rounds) ==
    IF ~file.present
    THEN [exc |-> "none", warned |-> TRUE, out |-> <<>>]
    ELSE read_lines(rounds, <<>>)

xyxy_from_txtfile(file) ==
    from_txtfile(file, [k \in 1..Len(file.val) |-> xyxy_line(file.val[k])])

xy_from_txtfile(file) ==
    from_txtfile(file, [k \in 1..Len(file.val) |-> xy_line(file.val[k])])

\* ------------------------------------------------------------ inputs
\* A well-formed pixel box and a malformed row (too few coordinates).
GoodBox == <<10, 10, 50, 50>>

BadBox == <<7, 7>>

\* Class ids: the first palette entry and the first index past the default
\* palette.
ClassIdValues == {0, Len(basic_palette)}

\* The Detections a caller can build: the dataclass checks no lengths, so
\* class_id may be shorter than xyxy (here by at most one).
DetectionsInputs ==
    {[xyxy |-> x, class_id |-> c] :
        <<x, c>> \in {xc \in SeqUpTo({GoodBox, BadBox}, MaxN)
                             \X ({NoneVal} \cup {Some(v) : v \in SeqUpTo(ClassIdValues, MaxN)}) :
                        xc[2].present =>
                            /\ Len(xc[2].val) <= Len(xc[1])
                            /\ Len(xc[2].val) >= Len(xc[1]) - 1}}

\* The label the caller gives record i: one letter, "a" for record 0.
LabelText(i) == <<97 + i>>

LabelsInputs(n) ==
    {NoneVal} \cup {Some([k \in 1..m |-> LabelText(k - 1)]) : m \in 0..n}

\* The colour the caller gives record i: Colors(128, 255, i).
UserColor(i) == Colors(128, 255, i)

NoColors == [present |-> FALSE, kind |-> "None", items |-> <<>>]

\* The colors a caller can pass: None, or a list or a tuple of up to
\* MaxN + 1 colours (fewer than, as many as, or more than the records).
ColorsInputs ==
    {NoColors} \cup
    {[present |-> TRUE, kind |-> kind, items |-> [k \in 1..m |-> UserColor(k - 1)]] :
        kind \in {"list", "tuple"}, m \in 0..(MaxN + 1)}

TxtColorInputs == {ColorCode("None", <<>>), ColorCode("Colors", Colors(0, 0, 0))}

\* The constructor calls considered, each <<pattern, short, first>>: the
\* optional attributes the caller passes arrays for (boxes alone, with class
\* ids, with polygons too, or every attribute), the attribute whose array is
\* one row shorter than the boxes ("none" for arrays of equal length), and
\* the first class id.
ConstructInputs ==
    {<<{}, "none", 0>>,
     <<{"class_id"}, "none", 0>>,
     <<{"class_id"}, "none", 1>>,
     <<{"poly", "class_id"}, "none", 0>>,
     <<OptionalAttrs, "none", 0>>,
     <<{"class_id"}, "class_id", 0>>,
     <<{"poly", "class_id"}, "poly", 0>>,
     <<{"poly", "class_id"}, "poly", 1>>}

\* Row r (from 1) of the array the caller passes for attribute a: a pixel
\* box for xyxy, a scalar for the others; class ids start at `first`.
CallerRow(a, r, first) ==
    IF a = "xyxy" THEN <<10 * r, 10 * r, 10 * r + 40, 10 * r + 40>>
    ELSE IF a = "class_id" THEN first + r - 1
    ELSE r

\* The row a caller's write stores into an array of attribute a.
WrittenRow(a) == IF a = "xyxy" THEN <<0, 0, 0, 0>> ELSE 99

\* The arrays of one constructor call: n boxes, the optional attributes in
\* `pattern`, attribute `short` (if any) one row shorter than the boxes.
CallerArrays(n, pattern, short, first) ==
    [a \in AttrSet |->
        IF a = "xyxy" \/ a \in pattern
        THEN [r \in 1..(IF a = short THEN n - 1 ELSE n) |-> CallerRow(a, r, first)]
        ELSE <<>>]

\* The indices a caller uses on a Detections of n records: ints from -1 to
\* n, lists over 0..n (n is out of range) and integer arrays over 0..n-1 of
\* up to MaxIndexLen entries, and slices with start, stop in {None, 1} and step in
\* {None, -1, 2, 0}.
IndexInputs(n) ==
    {IntIndex(i) : i \in (0 - 1)..n}
    \cup {ListIndex("list", items) : items \in SeqUpTo(0..n, MaxIndexLen)}
    \cup {ListIndex("ndarray", items) : items \in SeqUpTo(0..(n - 1), MaxIndexLen)}
    \cup {SliceIndex(start, stop, step) :
            start \in {NoneVal, Some(1)}, stop \in {NoneVal, Some(1)},
            step \in {NoneVal, Some(0 - 1), Some(2), Some(0)}}

\* ------------------------------------------------------------ actions
SameArguments(c, labels, colors, txt_color) ==
    /\ c.labels = labels
    /\ c.colors = colors
    /\ c.txt_color = txt_color

\* annotator.annotate(detections, labels, colors, txt_color).
Annotate(labels, colors, txt_color) ==
    \E out \in {annotate(annotator.lw, ColorPalette_init, detections,
                         labels, colors, txt_color)} :
    LET c == [labels |-> labels, colors |-> colors,
              txt_color |-> txt_color, raised |-> out.raised,
              logged |-> out.logged, warnings |-> out.warnings,
              calls |-> out.calls]
    IN /\ color_palette' = out.palette
       /\ log' = IF log # <<>> /\ SameArguments(log[Len(log)], labels, colors, txt_color)
                 THEN <<log[Len(log)], c>>
                 ELSE <<c>>
       /\ UNCHANGED <<detections, annotator>>
       /\ UNCHANGED detections_vars
       /\ UNCHANGED library_vars

\* The caller has built a Detections and a BoxAnnotator on a 640 x 640 image
\* with line_width = 2 (as tests/test_annotators.py does).
InitAnnotate ==
    /\ detections \in DetectionsInputs
    /\ annotator = BoxAnnotator_init(<<640, 640, 3>>, Some(2))
    /\ color_palette = <<>>
    /\ log = <<>>
    /\ heap = EmptyHeap
    /\ objs = <<>>
    /\ last_op = NoOp
    /\ palettes = <<>>
    /\ palette_op = NoOp
    /\ call = NoOp

NextAnnotate ==
    \E labels \in LabelsInputs(Len(detections.xyxy)),
       colors \in ColorsInputs, txt_color \in TxtColorInputs :
        Annotate(labels, colors, txt_color)

SpecAnnotate == InitAnnotate /\ [][NextAnnotate]_vars

\* ------------------------------------------------------------ Detections: actions
\* Detections(xyxy=..., ...): the dataclass stores the arrays it is given
\* and checks nothing.  The object is the first alive or is built beside the
\* one alive, its arrays in buffers of their own.
Construct(n, pattern, short, first) ==
    /\ Len(objs) <= 1
    /\ short # "none" => n >= 1
    /\ LET arrays == CallerArrays(n, pattern, short, first)
           buf(a) == IF objs = <<>> THEN 1 ELSE FreeBuf(objs[1], a)
           d == [a \in DOMAIN arrays |->
                   IF a = "xyxy" \/ a \in pattern
                   THEN Array(buf(a), [r \in 1..Len(arrays[a]) |-> r])
                   ELSE NoArray]
       IN /\ objs' = Append(objs, d)
          /\ heap' = [a \in DOMAIN arrays |->
                        IF d[a].present
                        THEN [b \in 1..2 |-> IF b = buf(a) THEN arrays[a]
                                             ELSE IF objs = <<>> THEN <<>>
                                             ELSE heap[a][b]]
                        ELSE IF objs = <<>> THEN <<<<>>, <<>>>> ELSE heap[a]]
          /\ last_op' = [kind |-> "construct", exc |-> "none"]
    /\ UNCHANGED annotate_vars
    /\ UNCHANGED library_vars

\* objs[k][index]: on success the indexed object and the derived one are the
\* objects alive; a raised exception leaves everything as it was.
GetItem(k, index) ==
    /\ k \in 1..Len(objs)
    /\ \E out \in {Detections_getitem(heap, objs[k], index)} :
        /\ last_op' = [kind |-> "getitem", exc |-> out.exc, index |-> index,
                       k |-> k]
        /\ IF out.exc = "none"
           THEN /\ objs' = <<objs[k], out.obj>>
                /\ heap' = out.heap
           ELSE UNCHANGED <<objs, heap>>
    /\ UNCHANGED annotate_vars
    /\ UNCHANGED library_vars

\* objs[k].a[0] = WrittenRow(a): a write into an attribute array goes to
\* the buffer the array is over.
Write(k, a) ==
    /\ k \in 1..Len(objs)
    /\ objs[k][a].present
    /\ Len(objs[k][a].idx) >= 1
    /\ heap' = [heap EXCEPT ![a][objs[k][a].buf][objs[k][a].idx[1]] = WrittenRow(a)]
    /\ last_op' = [kind |-> "write", exc |-> "none", k |-> k, a |-> a]
    /\ UNCHANGED objs
    /\ UNCHANGED annotate_vars
    /\ UNCHANGED library_vars

\* objs[i] == objs[j].
Eq(i, j, emptyRaises) ==
    /\ i \in 1..Len(objs)
    /\ j \in 1..Len(objs)
    /\ \E out \in {Detections_eq(heap, objs[i], objs[j], emptyRaises)} :
        last_op' = [kind |-> "eq", exc |-> out.exc, result |-> out.result,
                    i |-> i, j |-> j]
    /\ UNCHANGED <<heap, objs>>
    /\ UNCHANGED annotate_vars
    /\ UNCHANGED library_vars

\* No Detections object exists yet; the annotator side is idle.
InitDetections ==
    /\ detections = [xyxy |-> <<>>, class_id |-> NoneVal]
    /\ annotator = BoxAnnotator_init(<<640, 640, 3>>, Some(2))
    /\ color_palette = <<>>
    /\ log = <<>>
    /\ heap = EmptyHeap
    /\ objs = <<>>
    /\ last_op = NoOp
    /\ palettes = <<>>
    /\ palette_op = NoOp
    /\ call = NoOp

\* One Detections is built and indexed; the caller then writes row 0 of the
\* boxes or of the class ids, of the original or of the derived object.
NextDetections ==
    \/ /\ objs = <<>>
       /\ \E n \in 0..MaxN, c \in ConstructInputs :
            Construct(n, c[1], c[2], c[3])
    \/ /\ Len(objs) = 1
       /\ \E index \in IndexInputs(Detections_len(objs[1])) :
            GetItem(1, index)
    \/ /\ Len(objs) = 2
       /\ \E k \in 1..2, a \in {"xyxy", "class_id"} :
            Write(k, a)

SpecDetections == InitDetections /\ [][NextDetections]_vars

\* Two Detections are built and compared, each with each.
NextEquality ==
    \/ \E n \in 0..MaxN, c \in ConstructInputs :
            Construct(n, c[1], c[2], c[3])
    \/ \E i \in 1..Len(objs), j \in 1..Len(objs), emptyRaises \in BOOLEAN :
            Eq(i, j, emptyRaises)

SpecEquality == InitDetections /\ [][NextEquality]_vars

\* ------------------------------------------------------------ annotate: claims
\* The last annotate call and the number of records it was given.
Last == log[Len(log)]

NRecords == Len(detections.xyxy)

\* The box_label call of the last annotate call for record j, if any.
HasCall(j) == \E k \in 1..Len(Last.calls) : Last.calls[k].i = j

\* Record j processed on its own, as the loop body does it, raises nothing.
RecordSucceeds(j) ==
    annotate_record(annotator.lw, detections, Last.labels, color_palette,
                    Last.txt_color, j).exc = "none"

\* C1: when the processing of a record fails, only that record is skipped:
\* every record whose own processing does not fail still gets its box_label
\* call, the records after the failing one included.
C1_OnlyFailingRecordSkipped ==
    (log # <<>> /\ Last.raised = "none") =>
        \A j \in 0..(NRecords - 1) : RecordSucceeds(j) => HasCall(j)

\* C2: for every record i that has an entry in the caller's colors, the
\* colour passed to box_label is colors[i].
C2_CallerColorUsed ==
    (log # <<>> /\ Last.colors.present) =>
        \A k \in 1..Len(Last.calls) :
            Last.calls[k].i < Len(Last.colors.items) =>
                Last.calls[k].color = Last.colors.items[Last.calls[k].i + 1]

\* The key annotate looks record i up by, read off the Detections.
KeyOf(i) == IF detections.class_id.present THEN detections.class_id.val[i + 1] ELSE i

\* C3: with fewer colors than records annotate warns, raises nothing to the
\* caller, and still issues a box_label call for every record (here: whenever
\* no record fails on its own), the records past the end of colors being
\* coloured by palette lookup.
C3_FewColorsWarnsAndDrawsAll ==
    (log # <<>> /\ Last.colors.present /\ Len(Last.colors.items) < NRecords) =>
        /\ \E k \in 1..Len(Last.warnings) : Last.warnings[k] = "colors out of bounds"
        /\ Last.raised = "none"
        /\ (\A j \in 0..(NRecords - 1) : RecordSucceeds(j)) =>
               /\ Len(Last.calls) = NRecords
               /\ \A k \in 1..Len(Last.calls) :
                      Last.calls[k].i >= Len(Last.colors.items) =>
                          Last.calls[k].color = color_palette[KeyOf(Last.calls[k].i) + 1]

\* C4: the colour of every box_label call is the palette entry at the
\* record's class id when class ids are present and at its positional index
\* when they are absent; without caller colors that entry is the default
\* palette's.
C4_LookupKey ==
    log # <<>> =>
        \A k \in 1..Len(Last.calls) :
            LET c == Last.calls[k] IN
            /\ detections.class_id.present => c.i < Len(detections.class_id.val)
            /\ KeyOf(c.i) \in 0..(Len(color_palette) - 1)
            /\ c.color = color_palette[KeyOf(c.i) + 1]
            /\ ~Last.colors.present =>
                   c.color = Colors(basic_palette[KeyOf(c.i) + 1][1],
                                    basic_palette[KeyOf(c.i) + 1][2],
                                    basic_palette[KeyOf(c.i) + 1][3])

\* Two records with class id 0 were both drawn, without caller colors, in the
\* colour of palette entry 0: the second one's key differs from its index.
C4_Witness ==
    /\ log # <<>>
    /\ ~Last.colors.present
    /\ detections.class_id.present
    /\ Len(Last.calls) = 2
    /\ Last.calls[2].i = 1
    /\ detections.class_id.val[2] = 0
    /\ Last.calls[2].exc = "none"
    /\ Last.calls[2].color = Colors(255, 0, 0)

\* The label the claim gives record i: labels[i] when the caller provided it,
\* the empty label otherwise.
ExpectedLabel(i) ==
    IF Last.labels.present /\ i < Len(Last.labels.val)
    THEN Last.labels.val[i + 1]
    ELSE <<>>

\* Record j can be drawn with the label the claim gives it: its key and its
\* colour exist and box_label raises nothing.
DrawableWithExpectedLabel(j) ==
    /\ color_idx(detections, j).exc = "none"
    /\ get_color_by_index(color_palette, color_idx(detections, j).key).exc = "none"
    /\ box_label(annotator.lw, detections.xyxy[j + 1], ExpectedLabel(j),
                 ColorCode("Colors",
                     get_color_by_index(color_palette,
                                        color_idx(detections, j).key).color),
                 Last.txt_color).exc = "none"

\* C5: the label passed for record i is labels[i] when the caller provided
\* one and empty otherwise, and a missing label never prevents a box from
\* being drawn: when every record can be drawn with that label, every record
\* gets its box_label call.
C5_MissingLabelIsEmpty ==
    (log # <<>> /\ Last.raised = "none") =>
        /\ \A k \in 1..Len(Last.calls) :
               Last.calls[k].label = ExpectedLabel(Last.calls[k].i)
        /\ (\A j \in 0..(NRecords - 1) : DrawableWithExpectedLabel(j)) =>
               \A j \in 0..(NRecords - 1) : HasCall(j)

\* The (box, label, colour) of every box_label call of an annotate call.
DrawSequence(c) ==
    [k \in 1..Len(c.calls) |-> <<c.calls[k].xyxy, c.calls[k].label, c.calls[k].color>>]

Indexed == objs[1]

IndexList == last_op.index.items

OrderedIndexInRange ==
    /\ last_op.kind = "getitem"
    /\ last_op.index.kind \in {"int", "list", "ndarray"}
    /\ \A k \in 1..Len(IndexList) :
        IndexList[k] \in 0..(Detections_len(Indexed) - 1)

\* Every present attribute of the indexed object has a row at every index.
RowsExist ==
    \A a \in AttrSet : \A k \in 1..Len(IndexList) :
        Indexed[a].present => IndexList[k] < Len(Indexed[a].idx)

\* C7: for a Detections d of length N and an int i (taken as [i]), a list or
\* an integer array I over [0, N), d[I] has len(I) records; for xyxy and every
\* optional attribute present on d, row k of d[I] is d's row I[k]; every
\* attribute that is None on d is None on d[I].  The call returns whenever d
\* has the rows the index names.
C7_RowSelection ==
    OrderedIndexInRange =>
        /\ last_op.exc = "none" <=> RowsExist
        /\ last_op.exc = "none" =>
            /\ Len(objs) = 2
            /\ Detections_len(objs[2]) = Len(IndexList)
            /\ \A a \in AttrSet :
                /\ objs[2][a].present = Indexed[a].present
                /\ Indexed[a].present =>
                    /\ Len(objs[2][a].idx) = Len(IndexList)
                    /\ \A k \in 1..Len(IndexList) :
                        Rows(heap, objs[2], a)[k] =
                            Rows(heap, Indexed, a)[IndexList[k] + 1]

\* d of two records with polygons and class ids, indexed by the list [1, 0]:
\* the rows come out swapped, confidence stays None.
C7_Witness ==
    /\ OrderedIndexInRange
    /\ last_op.exc = "none"
    /\ last_op.index.kind = "list"
    /\ IndexList = <<1, 0>>
    /\ Indexed["class_id"].present
    /\ Indexed["poly"].present
    /\ ~objs[2]["confidence"].present
    /\ Rows(heap, objs[2], "class_id") = <<1, 0>>
    /\ Rows(heap, objs[2], "xyxy")[1] = CallerRow("xyxy", 2, 0)

\* What the two compared objects are, and equality attribute by attribute.
Left == objs[last_op.i]

Right == objs[last_op.j]

EqualByAttributes ==
    \A a \in AttrSet : array_equal(heap, Left, Right, a)

\* C8: a == b returns a boolean, and returns True exactly when the boxes are
\* elementwise equal and every optional attribute is None on both or present
\* on both and elementwise equal.
C8_EqIffAllAttributesEqual ==
    last_op.kind = "eq" =>
        /\ last_op.exc = "none"
        /\ last_op.result = EqualByAttributes

\* C9: every Detections built from caller arrays or derived by indexing has
\* every present optional attribute of exactly len(detections) rows.
C9_LengthInvariant ==
    \A k \in 1..Len(objs) : \A a \in OptionalAttrs :
        objs[k][a].present => Len(objs[k][a].idx) = Detections_len(objs[k])

\* C10: after d[index], for every kind of index, a write into an array of the
\* derived object changes no attribute of the original, and a write into an
\* array of the original changes no attribute of the derived object.
C10_NoSharedStorage ==
    [][last_op'.kind = "write" =>
        \A a \in AttrSet :
            objs[3 - last_op'.k][a].present =>
                Rows(heap', objs[3 - last_op'.k], a) =
                    Rows(heap, objs[3 - last_op'.k], a)]_vars

\* ------------------------------------------------------------ ColorPalette: actions
\* Color codes a caller passes to add_color: an RGB tuple, a hex string
\* ("#0a0B0c"), a Colors object, a string that is no hex code ("red") and
\* None.
RgbCode == ColorCode("tuple", <<1, 2, 3>>)

HexCode == ColorCode("str", <<Hash, 48, 97, 48, 66, 48, 99>>)

ColorsCode == ColorCode("Colors", Colors(9, 9, 9))

NameCode == ColorCode("str", <<114, 101, 100>>)

NoneCode == ColorCode("None", <<>>)

\* The arguments of add_color: these, a tuple of two items and a list.
CodeInputs ==
    {RgbCode, HexCode, ColorsCode, NameCode, NoneCode,
     ColorCode("tuple", <<1, 2>>), ColorCode("list", <<1, 2, 3>>)}

\* The lists a caller passes to add_palette and to override_color.
EntriesInputs ==
    SeqUpTo({RgbCode, ColorsCode, NameCode, NoneCode}, MaxEntries)

\* The indices a caller passes to get_color_by_index of a palette of n
\* entries: around 0 and around n.
PaletteIndexInputs(n) == (-2..1) \cup ((n - 2)..(n + 1))

\* The calls considered leave a palette with at most MaxEntries entries more
\* than a new palette has.
PaletteFits(cs) == Len(cs) <= Len(basic_palette) + MaxEntries

\* ColorPalette(): one more palette object.
NewPalette ==
    /\ Len(palettes) < 2
    /\ palettes' = Append(palettes, ColorPalette_init)
    /\ palette_op' = [kind |-> "ColorPalette", exc |-> "none",
                      p |-> Len(palettes) + 1, before |-> palettes]
    /\ UNCHANGED <<annotate_vars, detections_vars, call>>

\* palettes[p].add_color(code).
AddColor(p, code) ==
    /\ p \in 1..Len(palettes)
    /\ \E out \in {add_color(palettes[p], code)} :
        /\ PaletteFits(out.colors)
        /\ palettes' = [palettes EXCEPT ![p] = out.colors]
        /\ palette_op' = [kind |-> "add_color", exc |-> out.exc, p |-> p,
                          arg |-> code, before |-> palettes,
                          warned |-> IF out.warned THEN 1 ELSE 0]
    /\ UNCHANGED <<annotate_vars, detections_vars, call>>

\* palettes[p].add_palette(entries).
AddPalette(p, entries) ==
    /\ p \in 1..Len(palettes)
    /\ \E out \in {add_palette(palettes[p], entries)} :
        /\ PaletteFits(out.colors)
        /\ palettes' = [palettes EXCEPT ![p] = out.colors]
        /\ palette_op' = [kind |-> "add_palette", exc |-> out.exc, p |-> p,
                          arg |-> entries, before |-> palettes,
                          warned |-> out.warned]
    /\ UNCHANGED <<annotate_vars, detections_vars, call>>

\* palettes[p].override_color(entries).
OverrideColor(p, entries) ==
    /\ p \in 1..Len(palettes)
    /\ \E out \in {override_color(palettes[p], entries)} :
        /\ PaletteFits(out.colors)
        /\ palettes' = [palettes EXCEPT ![p] = out.colors]
        /\ palette_op' = [kind |-> "override_color", exc |-> out.exc, p |-> p,
                          arg |-> entries, before |-> palettes,
                          warned |-> out.warned]
    /\ UNCHANGED <<annotate_vars, detections_vars, call>>

\* palettes[p].get_color_by_index(index).
GetColorByIndex(p, index) ==
    /\ p \in 1..Len(palettes)
    /\ \E out \in {get_color_by_index(palettes[p], index)} :
        palette_op' = [kind |-> "get_color_by_index", exc |-> out.exc,
                       p |-> p, arg |-> index, before |-> palettes,
                       color |-> out.color]
    /\ UNCHANGED palettes
    /\ UNCHANGED <<annotate_vars, detections_vars, call>>

\* No ColorPalette exists yet; the annotator and the Detections side are idle.
InitPalette ==
    /\ detections = [xyxy |-> <<>>, class_id |-> NoneVal]
    /\ annotator = BoxAnnotator_init(<<640, 640, 3>>, Some(2))
    /\ color_palette = <<>>
    /\ log = <<>>
    /\ heap = EmptyHeap
    /\ objs = <<>>
    /\ last_op = NoOp
    /\ palettes = <<>>
    /\ palette_op = NoOp
    /\ call = NoOp

\* Up to two palettes are made; the caller changes the first one, before or
\* after the second one is made, and reads both.
NextPalette ==
    \/ NewPalette
    \/ \E code \in CodeInputs : AddColor(1, code)
    \/ \E entries \in EntriesInputs : AddPalette(1, entries)
    \/ \E entries \in EntriesInputs : OverrideColor(1, entries)
    \/ \E p \in 1..Len(palettes) :
         \E index \in PaletteIndexInputs(Len(palettes[p])) :
            GetColorByIndex(p, index)

SpecPalette == InitPalette /\ [][NextPalette]_vars

\* ------------------------------------------------------------ ColorPalette: claims
\* A color code that stands for a colour: a tuple of three items, a string
\* that hex_to_rgb turns into a Colors, a Colors object.
IsValidCode(code) ==
    \/ code.kind = "tuple" /\ Len(code.items) = 3
    \/ code.kind = "str" /\ hex_to_rgb(code.items).exc = "none"
    \/ code.kind = "Colors"

\* A color code of a type add_color does not know.
IsUnsupportedCode(code) == code.kind \notin {"tuple", "str", "Colors"}

\* The Colors value of a valid color code.
ColorsValue(code) ==
    IF code.kind = "tuple"
    THEN Colors(code.items[1], code.items[2], code.items[3])
    ELSE IF code.kind = "str" THEN hex_to_rgb(code.items).color
    ELSE code.items

\* The Colors values of the valid entries of a list, in their order.
RECURSIVE ValidColors(_)
ValidColors(entries) ==
    IF entries = <<>> THEN <<>>
    ELSE IF IsValidCode(Head(entries))
    THEN <<ColorsValue(Head(entries))>> \o ValidColors(Tail(entries))
    ELSE ValidColors(Tail(entries))

\* The palette the last call was made on, before and after the call.
PaletteBefore == palette_op.before[palette_op.p]

PaletteAfter == palettes[palette_op.p]

Returned(j, color) == [exc |-> "none", color |-> color]

\* The entries of cs are those of L followed by those of P, as
\* get_color_by_index reads them.
ReadsAsPrepended(cs, L, P) ==
    /\ Len(cs) = Len(L) + Len(P)
    /\ \A j \in 0..(Len(L) - 1) :
         get_color_by_index(cs, j) = Returned(j, L[j + 1])
    /\ \A j \in 0..(Len(P) - 1) :
         get_color_by_index(cs, Len(L) + j) = Returned(j, P[j + 1])

\* C11: after an override_color call whose entries convert to k >= 1 valid
\* colors L on a palette with entries P, index j < k reads L[j] and index
\* k + j reads P[j], the length being n + k; when no entry is valid (the empty
\* list included) the palette is unchanged.  A call that raises on a malformed
\* entry assigns nothing.
C11_OverridePrepends ==
    palette_op.kind = "override_color" =>
        IF palette_op.exc # "none"
        THEN PaletteAfter = PaletteBefore
        ELSE IF ValidColors(palette_op.arg) # <<>>
        THEN ReadsAsPrepended(PaletteAfter, ValidColors(palette_op.arg),
                              PaletteBefore)
        ELSE PaletteAfter = PaletteBefore

\* An override_color call with a valid and an unsupported entry has
\* returned, on a palette that earlier calls had changed.
C11_Witness ==
    /\ palette_op.kind = "override_color"
    /\ palette_op.exc = "none"
    /\ Len(ValidColors(palette_op.arg)) = 1
    /\ Len(palette_op.arg) = 2
    /\ PaletteBefore # ColorPalette_init
    /\ PaletteAfter = ValidColors(palette_op.arg) \o PaletteBefore

\* C12: after any sequence of add_color, add_palette and override_color
\* calls, get_color_by_index(i) returns colors[i] for 0 <= i < len(colors) and
\* raises IndexError for i < 0 and for i >= len(colors), the palettes staying
\* as they were; a newly made palette has as many entries as basic_palette.
C12_LookupInRange ==
    /\ palette_op.kind = "get_color_by_index" =>
        /\ palettes = palette_op.before
        /\ IF 0 <= palette_op.arg /\ palette_op.arg < Len(PaletteBefore)
           THEN /\ palette_op.exc = "none"
                /\ palette_op.color = PaletteBefore[palette_op.arg + 1]
           ELSE palette_op.exc = "IndexError"
    /\ palette_op.kind = "ColorPalette" =>
        /\ Len(PaletteAfter) = Len(basic_palette)
        /\ get_color_by_index(PaletteAfter, Len(basic_palette) - 1).exc = "none"
        /\ get_color_by_index(PaletteAfter, Len(basic_palette)).exc = "IndexError"

\* The last entry of a palette that grew beyond the default size has been
\* read.
C12_Witness ==
    /\ palette_op.kind = "get_color_by_index"
    /\ Len(PaletteBefore) > Len(basic_palette)
    /\ palette_op.arg = Len(PaletteBefore) - 1
    /\ palette_op.exc = "none"
    /\ palette_op.color = PaletteBefore[Len(PaletteBefore)]

RECURSIVE ReachedEntries(_)
ReachedEntries(entries) ==
    IF entries = <<>> THEN <<>>
    ELSE IF IsValidCode(Head(entries)) \/ IsUnsupportedCode(Head(entries))
    THEN <<Head(entries)>> \o ReachedEntries(Tail(entries))
    ELSE <<>>

\* C14: add_color and add_palette only append: every entry the palette had
\* before the call keeps its index and value, and add_palette(entries) places
\* the valid entries behind them in the order they have in entries.  A call
\* that raises on a malformed entry has placed the valid entries before it.
C14_AppendOnly ==
    /\ palette_op.kind \in {"add_color", "add_palette"} =>
        /\ Len(PaletteAfter) >= Len(PaletteBefore)
        /\ \A i \in 1..Len(PaletteBefore) : PaletteAfter[i] = PaletteBefore[i]
    /\ palette_op.kind = "add_palette" =>
        /\ palette_op.exc = "none" <=>
              ReachedEntries(palette_op.arg) = palette_op.arg
        /\ PaletteAfter =
              PaletteBefore \o ValidColors(ReachedEntries(palette_op.arg))

\* add_palette of an RGB tuple and a Colors object has placed their two
\* colours, in this order, behind the entries of a palette of default size.
C14_Witness ==
    /\ palette_op.kind = "add_palette"
    /\ palette_op.arg = <<RgbCode, ColorsCode>>
    /\ palette_op.exc = "none"
    /\ Len(PaletteBefore) = Len(basic_palette)
    /\ PaletteAfter = PaletteBefore \o <<Colors(1, 2, 3), Colors(9, 9, 9)>>

\* The palettes other than the one the last call was made on are as they
\* were before the call.
OthersUntouched ==
    \A q \in 1..Len(palette_op.before) :
        q # palette_op.p => palettes[q] = palette_op.before[q]

\* C15: a newly made ColorPalette holds the colours of basic_palette in
\* their order whatever calls were made on the palettes made before it, and a
\* call on one palette (the constructor included) leaves the entries of every
\* other palette as they were.
C15_InstancesIndependent ==
    /\ palette_op.kind = "ColorPalette" =>
        /\ Len(palettes) = Len(palette_op.before) + 1
        /\ PaletteAfter = basic_palette
        /\ OthersUntouched
    /\ palette_op.kind \in {"add_color", "add_palette", "override_color",
                            "get_color_by_index"} =>
        /\ Len(palettes) = Len(palette_op.before)
        /\ OthersUntouched
    /\ \A q \in 2..Len(palettes) : palettes[q] = basic_palette

\* A second palette has been made after calls had changed the first one.
C15_Witness ==
    /\ palette_op.kind = "ColorPalette"
    /\ palette_op.p = 2
    /\ Len(palettes[1]) = Len(basic_palette) + MaxEntries
    /\ palettes[1][1] # basic_palette[1]
    /\ palettes[2] = basic_palette

\* ------------------------------------------------------------ Colors: actions
\* Two-character pieces of a hex colour string: "00", "fF", "A3", "0g",
\* "+f", "-1", "#0".
PairInputs ==
    {<<48, 48>>, <<102, 70>>, <<65, 51>>, <<48, 103>>, <<Plus, 102>>,
     <<Minus, 49>>, <<Hash, 48>>}

\* k characters '#'.
Hashes(k) == [i \in 1..k |-> Hash]

\* The strings a caller passes to hex_to_rgb: up to MaxHashes '#' in front of
\* three pieces, of two pieces, or of three pieces and one more digit.
HexInputs ==
    {Hashes(k) \o p1 \o p2 \o p3 \o tail :
        k \in 0..MaxHashes, p1 \in PairInputs, p2 \in PairInputs,
        p3 \in PairInputs \cup {<<>>}, tail \in {<<>>, <<48>>}}

\* Colors.hex_to_rgb(call.arg) on the string the caller holds.
HexToRgb ==
    /\ call.kind = "str"
    /\ \E out \in {hex_to_rgb(call.arg)} :
        call' = [kind |-> "hex_to_rgb", exc |-> out.exc, arg |-> call.arg,
                 color |-> out.color]
    /\ UNCHANGED <<annotate_vars, detections_vars, palettes, palette_op>>

\* color.to_hex() on the Colors that hex_to_rgb returned.
ToHex ==
    /\ call.kind = "hex_to_rgb"
    /\ call.exc = "none"
    /\ \E out \in {to_hex(call.color)} :
        call' = [kind |-> "to_hex", exc |-> out.exc, arg |-> call.color,
                 hex_code |-> call.arg, hex |-> out.hex]
    /\ UNCHANGED <<annotate_vars, detections_vars, palettes, palette_op>>

\* The caller holds a string; everything else is idle.
InitColors ==
    /\ detections = [xyxy |-> <<>>, class_id |-> NoneVal]
    /\ annotator = BoxAnnotator_init(<<640, 640, 3>>, Some(2))
    /\ color_palette = <<>>
    /\ log = <<>>
    /\ heap = EmptyHeap
    /\ objs = <<>>
    /\ last_op = NoOp
    /\ palettes = <<>>
    /\ palette_op = NoOp
    /\ call \in {[kind |-> "str", exc |-> "none", arg |-> h] : h \in HexInputs}

NextColors == HexToRgb \/ ToHex

SpecColors == InitColors /\ [][NextColors]_vars

\* ------------------------------------------------------------ Colors: claims
\* A string without its one optional leading '#'.
StripOneHash(h) == IF h # <<>> /\ Head(h) = Hash THEN Tail(h) ELSE h

\* A valid hex code: exactly 6 hexadecimal digits after one optional '#'.
IsHexCode(h) ==
    /\ Len(StripOneHash(h)) = 6
    /\ \A i \in 1..6 : HexVal(StripOneHash(h)[i]) >= 0

\* The byte that two hexadecimal digits spell.
ByteOf(d, i) == 16 * HexVal(d[i]) + HexVal(d[i + 1])

\* The three channel bytes of a valid hex code.
ChannelBytes(h) ==
    <<ByteOf(StripOneHash(h), 1), ByteOf(StripOneHash(h), 3),
      ByteOf(StripOneHash(h), 5)>>

\* The lower-case hexadecimal digit of a value in 0..15.
HexDigit(v) == IF v < 10 THEN 48 + v ELSE 87 + v

\* The normalized hex form of three channel bytes: '#' and six lower-case
\* digits.
NormalizedHex(c) ==
    <<Hash, HexDigit(c[1] \div 16), HexDigit(c[1] % 16),
      HexDigit(c[2] \div 16), HexDigit(c[2] % 16),
      HexDigit(c[3] \div 16), HexDigit(c[3] % 16)>>

\* C16: for every valid 6-hex-digit code h (any letter case, with or without
\* a leading '#'), hex_to_rgb(h).to_hex() returns the normalized hex form of
\* h and does not fail.
C16_HexRoundTrip ==
    (call.kind = "to_hex" /\ IsHexCode(call.hex_code)) =>
        /\ call.exc = "none"
        /\ call.hex = NormalizedHex(ChannelBytes(call.hex_code))

\* C17: hex_to_rgb succeeds exactly for the strings that are 6 hexadecimal
\* digits after one optional leading '#', with the three byte pairs as r, g,
\* b; on every other string it fails and makes no color.
C17_HexToRgbExactlyValid ==
    call.kind = "hex_to_rgb" =>
        IF IsHexCode(call.arg)
        THEN /\ call.exc = "none"
             /\ call.color = ChannelBytes(call.arg)
        ELSE call.exc = "ValueError"

\* ------------------------------------------------------------ convertor: actions
\* Boxes (x1, y1, x2, y2) with x1 <= x2 and y1 <= y2 over the coordinates V.
BoxesOver(V) ==
    {b \in {<<x1, y1, x2, y2>> : x1 \in V, y1 \in V, x2 \in V, y2 \in V} :
        b[1] <= b[3] /\ b[2] <= b[4]}

\* The scales (height, width) a caller passes to xyxy2xyxyn: positive
\* dimensions.
ScaleInputs == {<<h, w>> : h \in 1..MaxPixel, w \in 1..MaxPixel}

\* The float coordinates a caller passes to xyxy2xywh: the floats that are
\* even multiples of the unit, up to twice the first power of two that needs
\* all significand bits.
FloatInputs ==
    {n \in 0..Pow2(MantissaBits + 1) : n % 2 = 0 /\ fl(n) = n}

\* The vertices of the polygons a caller passes to poly2xyxy.
VertexInputs == {<<0, 0>>, <<3, 1>>, <<1, 4>>, <<3, 4>>, <<-1, 2>>}

\* xyxy2xyxyn(B, S).
Xyxy2xyxyn(B, S) ==
    /\ call' = [kind |-> "xyxy2xyxyn", exc |-> "none", box |-> B,
                scale |-> S, out |-> xyxy2xyxyn(B, S)]
    /\ UNCHANGED <<annotate_vars, detections_vars, palettes, palette_op>>

\* xyxyn2xyxy on the tuple xyxy2xyxyn returned, with the same scale.
Xyxyn2xyxy ==
    /\ call.kind = "xyxy2xyxyn"
    /\ \E out \in xyxyn2xyxy(call.out, call.scale) :
        call' = [kind |-> "xyxyn2xyxy", exc |-> "none", box |-> call.box,
                 scale |-> call.scale, arg |-> call.out, out |-> out]
    /\ UNCHANGED <<annotate_vars, detections_vars, palettes, palette_op>>

\* xyxy2xywh(B).
Xyxy2xywh(B) ==
    /\ call' = [kind |-> "xyxy2xywh", exc |-> "none", box |-> B,
                out |-> xyxy2xywh(B)]
    /\ UNCHANGED <<annotate_vars, detections_vars, palettes, palette_op>>

\* xywh2xyxy on the tuple xyxy2xywh returned.
Xywh2xyxy ==
    /\ call.kind = "xyxy2xywh"
    /\ call' = [kind |-> "xywh2xyxy", exc |-> "none", box |-> call.box,
                arg |-> call.out, out |-> xywh2xyxy(call.out)]
    /\ UNCHANGED <<annotate_vars, detections_vars, palettes, palette_op>>

\* poly2xyxy(poly).
Poly2xyxy(poly) ==
    /\ \E out \in {poly2xyxy(poly)} :
        call' = [kind |-> "poly2xyxy", exc |-> out.exc, arg |-> poly,
                 out |-> out.box]
    /\ UNCHANGED <<annotate_vars, detections_vars, palettes, palette_op>>

\* One function of convertor.py is called on a box or a polygon, and then the
\* inverse of a box conversion on what the conversion returned.
NextConvertor ==
    \/ /\ call = NoOp
       /\ \E B \in BoxesOver(0..MaxPixel), S \in ScaleInputs : Xyxy2xyxyn(B, S)
    \/ Xyxyn2xyxy
    \/ /\ call = NoOp
       /\ \E B \in BoxesOver(FloatInputs) : Xyxy2xywh(B)
    \/ Xywh2xyxy
    \/ /\ call = NoOp
       /\ \E poly \in SeqUpTo(VertexInputs, MaxVertices) : Poly2xyxy(poly)

\* Nothing has been called; the other parts are idle (as in InitPalette).
SpecConvertor == InitPalette /\ [][NextConvertor]_vars

\* ------------------------------------------------------------ convertor: claims
Abs(x) == IF x < 0 THEN 0 - x ELSE x

\* C18: for every integer pixel box B and every scale S = (height, width)
\* with positive dimensions, xyxy2xyxyn divides the x coordinates by width and
\* the y coordinates by height, and xyxyn2xyxy(xyxy2xyxyn(B, S), S) is within
\* 1 unit of B on each of the four coordinates.
C18_PixelRoundTrip ==
    /\ call.kind = "xyxy2xyxyn" =>
        call.out = <<Frac(call.box[1], call.scale[2]),
                     Frac(call.box[2], call.scale[1]),
                     Frac(call.box[3], call.scale[2]),
                     Frac(call.box[4], call.scale[1])>>
    /\ call.kind = "xyxyn2xyxy" =>
        \A i \in 1..4 : Abs(call.out[i] - call.box[i]) <= 1

\* C19: for every box B, xywh2xyxy(xyxy2xywh(B)) == B exactly, xyxy2xywh(B)
\* being (x1 + w/2, y1 + h/2, w, h) with w = x2 - x1 and h = y2 - y1 as the
\* floats compute them.
C19_CenterRoundTrip ==
    /\ call.kind = "xyxy2xywh" =>
        /\ call.out[3] = fl(call.box[3] - call.box[1])
        /\ call.out[4] = fl(call.box[4] - call.box[2])
        /\ call.out[1] = fl(call.box[1] + half(call.out[3]))
        /\ call.out[2] = fl(call.box[2] + half(call.out[4]))
    /\ call.kind = "xywh2xyxy" => call.out = call.box

\* C20: for every non-empty sequence of (x, y) vertices poly2xyxy returns a
\* box that holds every vertex and whose four sides each touch a vertex, that
\* is (min x, min y, max x, max y); for the empty sequence it raises instead
\* of returning a box.
C20_PolygonBox ==
    call.kind = "poly2xyxy" =>
        IF call.arg = <<>>
        THEN call.exc # "none" /\ call.out = <<>>
        ELSE /\ call.exc = "none"
             /\ \A i \in 1..Len(call.arg) :
                  /\ call.out[1] <= call.arg[i][1]
                  /\ call.arg[i][1] <= call.out[3]
                  /\ call.out[2] <= call.arg[i][2]
                  /\ call.arg[i][2] <= call.out[4]
             /\ \E i \in 1..Len(call.arg) : call.arg[i][1] = call.out[1]
             /\ \E i \in 1..Len(call.arg) : call.arg[i][2] = call.out[2]
             /\ \E i \in 1..Len(call.arg) : call.arg[i][1] = call.out[3]
             /\ \E i \in 1..Len(call.arg) : call.arg[i][2] = call.out[4]

\* poly2xyxy of three vertices has returned a box whose four sides touch
\* different vertices.
C20_Witness ==
    /\ call.kind = "poly2xyxy"
    /\ call.arg = <<<<3, 1>>, <<-1, 2>>, <<1, 4>>>>
    /\ call.exc = "none"
    /\ call.out = <<-1, 1, 3, 4>>

\* ------------------------------------------------------------ label files: actions
\* The lines of label files: "0 1 2 3 4", "1 0 1 2 3", "0 0.5 1.5 2 3",
\* "1 0.5 0.5 1.5 1.5", "0 1.0 2 3 4", "0 1 2 3" (four tokens),
\* "0 1 2 3 4 5 6" (a polygon) and the line without tokens.
LineInputs ==
    {[i \in 1..Len(l) |-> Token(l[i][1], l[i][2])] : l \in
        {<<<<"int", 0>>, <<"int", 1>>, <<"int", 2>>, <<"int", 3>>, <<"int", 4>>>>,
         <<<<"int", 1>>, <<"int", 0>>, <<"int", 1>>, <<"int", 2>>, <<"int", 3>>>>,
         <<<<"int", 0>>, <<"half", 0>>, <<"half", 1>>, <<"int", 2>>, <<"int", 3>>>>,
         <<<<"int", 1>>, <<"half", 0>>, <<"half", 0>>, <<"half", 1>>, <<"half", 1>>>>,
         <<<<"int", 0>>, <<"point", 1>>, <<"int", 2>>, <<"int", 3>>, <<"int", 4>>>>,
         <<<<"int", 0>>, <<"int", 1>>, <<"int", 2>>, <<"int", 3>>>>,
         <<<<"int", 0>>, <<"int", 1>>, <<"int", 2>>, <<"int", 3>>, <<"int", 4>>,
           <<"int", 5>>, <<"int", 6>>>>,
         <<>>}}

\* The files at the paths a caller passes: no file, or up to MaxLines lines.
FileInputs == {NoneVal} \cup {Some(f) : f \in SeqUpTo(LineInputs, MaxLines)}

\* xyxy_from_txtfile(txt_file).
XyxyFromTxtfile(file) ==
    /\ \E out \in {xyxy_from_txtfile(file)} :
        call' = [kind |-> "xyxy_from_txtfile", exc |-> out.exc, arg |-> file,
                 warned |-> out.warned, out |-> out.out]
    /\ UNCHANGED <<annotate_vars, detections_vars, palettes, palette_op>>

\* xy_from_txtfile(txt_file).
XyFromTxtfile(file) ==
    /\ \E out \in {xy_from_txtfile(file)} :
        call' = [kind |-> "xy_from_txtfile", exc |-> out.exc, arg |-> file,
                 warned |-> out.warned, out |-> out.out]
    /\ UNCHANGED <<annotate_vars, detections_vars, palettes, palette_op>>

\* One of the two parsers is called on a path.
NextTxtfile ==
    \/ /\ call = NoOp
       /\ \E file \in FileInputs : XyxyFromTxtfile(file)
    \/ /\ call = NoOp
       /\ \E file \in FileInputs : XyFromTxtfile(file)

SpecTxtfile == InitPalette /\ [][NextTxtfile]_vars

\* ------------------------------------------------------------ label files: claims
\* The number a token stands for, an integer-valued one as an integer.
ExpectedNumber(x) ==
    IF x.form = "half"
    THEN [type |-> "float", halves |-> 2 * x.n + 1]
    ELSE [type |-> "int", n |-> x.n]

\* A file in the format of its parser: every line is a class id with four
\* numbers for xyxy_from_txtfile, a class id with two or more coordinate
\* pairs for xy_from_txtfile.
WellFormed(kind, file) ==
    file.present =>
        \A k \in 1..Len(file.val) :
            /\ file.val[k] # <<>>
            /\ file.val[k][1].form = "int"
            /\ IF kind = "xyxy_from_txtfile"
               THEN Len(file.val[k]) = 5
               ELSE Len(file.val[k]) >= 5 /\ Len(file.val[k]) % 2 = 1

\* C21: both label-file parsers, given a path without a file, log a warning,
\* return an empty result and do not fail; given a file (in the format of
\* the parser) they return one record per line in file order without failing,
\* integer-valued float tokens being returned as integers.
C21_ParsersTolerant ==
    (/\ call.kind \in {"xyxy_from_txtfile", "xy_from_txtfile"}
     /\ WellFormed(call.kind, call.arg)) =>
        /\ call.exc = "none"
        /\ IF ~call.arg.present
           THEN call.warned /\ call.out = <<>>
           ELSE /\ Len(call.out) = Len(call.arg.val)
                /\ call.kind = "xyxy_from_txtfile" =>
                     \A k \in 1..Len(call.out) :
                        call.out[k] = [i \in 1..Len(call.arg.val[k]) |->
                                          ExpectedNumber(call.arg.val[k][i])]

\* ------------------------------------------------------------ box annotator: actions
\* The image shapes (height, width, channels) an annotator is built on.
ShapeInputs == {<<300, 300, 3>>, <<640, 640, 3>>, <<2000, 2000, 3>>}

\* The line_width a caller passes: None or an integer.
LineWidthInputs == {NoneVal} \cup {Some(n) : n \in 0..3}

\* Boxes with the top-left corner at different distances from the top
\* edge of the image.
BoxInputs == {<<10, y, 50, 60>> : y \in {5, 10, 16, 17}}

\* BoxAnnotator(im, line_width) when given, BoxAnnotator(im) otherwise: the
\* parameter then takes its default, 2.
NewBoxAnnotator(im_shape, given, line_width) ==
    /\ annotator' = BoxAnnotator_init(im_shape,
                                      IF given THEN line_width ELSE Some(2))
    /\ call' = [kind |-> "BoxAnnotator", exc |-> "none", im_shape |-> im_shape,
                given |-> given, line_width |-> line_width]
    /\ UNCHANGED <<detections, color_palette, log, detections_vars,
                   palettes, palette_op>>

\* annotator.box_label(xyxy, label, color, txt_color).
BoxLabel(xyxy, label, color, txt_color) ==
    /\ \E out \in {box_label(annotator.lw, xyxy, label, color, txt_color)} :
        call' = [kind |-> "box_label", exc |-> out.exc, xyxy |-> xyxy,
                 label |-> label, color |-> color, txt_color |-> txt_color,
                 draws |-> out.draws]
    /\ UNCHANGED <<annotate_vars, detections_vars, palettes, palette_op>>

\* An annotator is built, then asked to draw one box.
NextBoxAnnotator ==
    \/ /\ call = NoOp
       /\ \E im_shape \in ShapeInputs, line_width \in LineWidthInputs :
            NewBoxAnnotator(im_shape, TRUE, line_width)
    \/ /\ call = NoOp
       /\ \E im_shape \in ShapeInputs :
            NewBoxAnnotator(im_shape, FALSE, NoneVal)
    \/ /\ call.kind = "BoxAnnotator"
       /\ \E xyxy \in BoxInputs,
             label \in {<<>>, LabelText(0), LabelText(0) \o LabelText(1)},
             color \in {ColorsCode, RgbCode, HexCode, NoneCode},
             txt_color \in TxtColorInputs :
            BoxLabel(xyxy, label, color, txt_color)

SpecBoxAnnotator == InitPalette /\ [][NextBoxAnnotator]_vars

\* ------------------------------------------------------------ box annotator: claims
\* The height of the rendered label of the last box_label call.
TextHeight == getTextSize(call.label, annotator.lw)[2]

TextWidth == getTextSize(call.label, annotator.lw)[1]

\* The label of the last box_label call goes above the box's top-left corner.
PlacedAbove == call.xyxy[2] - TextHeight >= 3

\* The last box_label call returned and the draw operations read as the
\* outline at the box corners in the configured line width, unfilled.
OutlineFirst ==
    /\ Len(call.draws) >= 1
    /\ call.draws[1].op = "rectangle"
    /\ call.draws[1].p1 = <<call.xyxy[1], call.xyxy[2]>>
    /\ call.draws[1].p2 = <<call.xyxy[3], call.xyxy[4]>>
    /\ call.draws[1].thickness = annotator.lw
    /\ call.draws[1].thickness # -1
    /\ call.color.kind \in {"Colors", "tuple"} =>
            call.draws[1].color = as_bgr(call.color.items)

\* The second and third draw operations are the filled background in the
\* box colour and the label in the text colour, above or below the corner.
LabelAfterOutline ==
    /\ Len(call.draws) = 3
    /\ call.draws[2].op = "rectangle"
    /\ call.draws[2].thickness = -1
    /\ call.draws[2].color = call.draws[1].color
    /\ call.draws[2].p1 = <<call.xyxy[1], call.xyxy[2]>>
    /\ call.draws[2].p2 =
            <<call.xyxy[1] + TextWidth,
              IF PlacedAbove THEN call.xyxy[2] - TextHeight - 3
                             ELSE call.xyxy[2] + TextHeight + 3>>
    /\ call.draws[3].op = "putText"
    /\ call.draws[3].text = call.label
    /\ call.draws[3].color = as_bgr(call.txt_color.items)
    /\ call.draws[3].p1 =
            <<call.xyxy[1],
              IF PlacedAbove THEN call.xyxy[2] - 2
                             ELSE call.xyxy[2] + TextHeight + 2>>

LineWidthSpecified ==
    call.given /\ call.line_width.present /\ call.line_width.val > 0

\* max(round(mean(height, width, channels) * 0.003), 2) of the image shape.
MeanLineWidth(im_shape) ==
    Max(Round(SumSeq(im_shape) * 3, Len(im_shape) * 1000), 2)

\* C23: the line width of a BoxAnnotator is the explicit line_width when the
\* caller specifies one, and max(round(mean(height, width, channels) * 0.003), 2)
\* of the image shape when the caller does not; a computed line width is at
\* least 2.
C23_LineWidth ==
    call.kind = "BoxAnnotator" =>
        IF LineWidthSpecified
        THEN annotator.lw = call.line_width.val
        ELSE /\ annotator.lw = MeanLineWidth(call.im_shape)
             /\ annotator.lw >= 2
====
